---- MODULE Spec2Model ----
(***************************************************************************)
(* Packfile parser (plumbing/format/packfile/parser.go), filesystem object *)
(* storage (storage/filesystem/object.go) and the gitService messages      *)
(* (x/gitService/msgs.go) as state machines.                               *)
(***************************************************************************)
EXTENDS Integers, Sequences, FiniteSets, TLC

\* ------------------------------------------------------------------ bounds
\* largest object count a pack header declares
MaxCount == 2
\* largest number of registered observers
MaxOb == 2
\* largest capacity (in buffers) of the delta-base LRU
MaxCacheCap == 1
\* an external call (scanner re-read, storage read or write) of one
\* resolve-pass iteration may fail: the MaxFault-th at the latest
MaxFault == 3

\* ------------------------------------------------------------- plumbing
Nil == "nil"

CommitObject == "commit"
BlobObject == "blob"
OFSDeltaObject == "ofs-delta"
REFDeltaObject == "ref-delta"
AnyObject == "any"

\* the resolved types a pack of the model holds
Types == {CommitObject, BlobObject}

IsDelta(t) == t \in {OFSDeltaObject, REFDeltaObject}

ZeroHash == <<"", 0, <<>>>>

ErrReferenceDeltaNotFound == "reference delta not found"
ErrNotSeekableSource == "parser source is not seekable and storage was not provided"
ErrDeltaNotCached == "delta could not be found in cache"
ErrObjectNotFound == "object not found"
ErrInvalidType == "invalid type"
ErrDeltaCorruption == "delta corruption"
ErrSeekNotSupported == "seek not supported"
ErrScanner == "scanner read error"
ErrStorageIO == "storage i/o error"
EOF == "EOF"
ErrUnexpectedEOF == "unexpected EOF"

\* the hash of the canonical framing: type name, length, payload
getSHA1(t, data) == <<t, Len(data), data>>

\* ------------------------------------------------------ pack contents
BaseContents == {<<1>>}

NoDelta == [srcLen |-> 0, copyLen |-> 0, ins |-> <<>>]

\* delta scripts: declared base length, copy(0, copyLen), insert(ins)
Deltas == {[srcLen |-> 1, copyLen |-> 1, ins |-> <<2>>],
           [srcLen |-> 2, copyLen |-> 1, ins |-> <<>>]}

\* the size of the instruction stream of a delta: two lengths, a copy
\* opcode with its size byte, an insert opcode with its literals
DeltaLen(d) == 2 + (IF d.copyLen > 0 THEN 2 ELSE 0)
                 + (IF Len(d.ins) > 0 THEN 1 + Len(d.ins) ELSE 0)

PatchDelta(base, d) ==
    IF d.srcLen # Len(base) \/ d.copyLen > Len(base)
    THEN [err |-> ErrDeltaCorruption, out |-> <<>>]
    ELSE [err |-> Nil, out |-> SubSeq(base, 1, d.copyLen) \o d.ins]

\* the offset the scanner reports for the i-th entry: after the 12 byte
\* pack header, entries at increasing offsets
OffsetOf(i) == 12 * i

\* an offset that is the start of no entry
BadOffset(i) == OffsetOf(i) - 1

\* the hashes a REF delta of the model names as its base
RefHashes == {getSHA1(BlobObject, <<1>>), getSHA1(BlobObject, <<1, 2>>)}

\* objects the storage may hold before the pack is parsed
ExternalObjects == {[t |-> BlobObject, d |-> <<1>>]}

\* the trailer of a complete pack
PackTrailer == <<"pack", 20, <<>>>>

BaseEntries ==
    {[Type |-> t, content |-> c, delta |-> NoDelta,
      OffsetReference |-> 0, Reference |-> ZeroHash] :
        t \in Types, c \in BaseContents}

OfsEntries(i) ==
    {[Type |-> OFSDeltaObject, content |-> <<>>, delta |-> d,
      OffsetReference |-> r, Reference |-> ZeroHash] :
        d \in Deltas, r \in {OffsetOf(j) : j \in 1..(i - 1)} \cup {BadOffset(i)}}

RefEntries ==
    {[Type |-> REFDeltaObject, content |-> <<>>, delta |-> d,
      OffsetReference |-> 0, Reference |-> r] :
        d \in Deltas, r \in RefHashes}

\* what the scanner may read as the i-th entry of the pack
Entries(i) == BaseEntries \cup OfsEntries(i) \cup RefEntries

\* the declared inflated length of an entry
EntryLength(e) == IF IsDelta(e.Type) THEN DeltaLen(e.delta) ELSE Len(e.content)

\* ---------------------------------------------------------------- maps
EmptyMap == [x \in {} |-> 0]

MapPut(m, k, v) == [x \in DOMAIN m \cup {k} |-> IF x = k THEN v ELSE m[x]]

MapDel(m, k) == [x \in DOMAIN m \ {k} |-> m[x]]

VARIABLES
    pc,          \* where Parse() stands
    seekable,    \* scanner.IsSeekable
    hasStorage,  \* storage != nil
    numOb,       \* len(p.ob)
    cacheCap,    \* capacity of p.cache
    pack,        \* the entries the scanner has read, in order
    count,       \* p.count
    oi,          \* p.oi: node ids in index order
    nodes,       \* the objectInfo arena: id -> objectInfo
    oiByHash,    \* p.oiByHash
    oiByOffset,  \* p.oiByOffset
    checksum,    \* p.checksum
    sumErr,      \* the error Scanner.Checksum() reported
    cache,       \* p.cache: <<[k, v], ...>>, most recently used first
    deltas,      \* p.deltas: [nil, m]
    store,       \* the objects the attached storage holds
    log,         \* the observer callbacks and storage writes made, in order
    ix,          \* the position of indexObjects in the pack
    ri,          \* the position of resolveDeltas in p.oi
    ret,         \* what the constructor or Parse() returned: [h, err]
    disk,        \* the object directories: dir -> [loose, packs, alts]
    index,       \* s.index of the ObjectStorage of the root directory
    sret,        \* the last operation on the ObjectStorage and its result
    keepDescriptors, \* s.options.KeepDescriptors
    fds,         \* pack descriptors: [last, open, closed]
    writer,      \* the writer PackfileWriter() returned: [state, pack]
    faulty,      \* whether calls to the file system may fail
    procs,       \* concurrent readers of one ObjectStorage
    msg          \* the last MsgUpdateReferences built and what was asked of it

\* the parser
pvars == <<pc, seekable, hasStorage, numOb, cacheCap, pack, count, oi, nodes,
           oiByHash, oiByOffset, checksum, sumErr, cache, deltas, store, log,
           ix, ri, ret>>

\* the filesystem object storage
svars == <<disk, index, sret, keepDescriptors, fds, writer, faulty, procs>>

\* the gitService messages
mvars == <<msg>>

vars == <<pvars, svars, mvars>>

\* no message has been built
NoMsg == [op |-> ""]


\* ------------------------------------------------------------ observers
\* a call made by the parser, with its arguments and what it returned: a
\* callback of the observer ob, or a write to the storage (ob = 0)
Event(ev, n, t, pos, h, crc, content) ==
    [ob |-> 0, ev |-> ev, n |-> n, t |-> t, pos |-> pos, h |-> h,
     crc |-> crc, content |-> content, err |-> Nil]

\* the error the k-th observer returns from its callback
ObserverError(k) == "observer error " \o ToString(k)

\* the call of the j-th observer and what it returns
Callback(e, j, k) ==
    [e EXCEPT !.ob = j, !.err = IF j = k THEN ObserverError(k) ELSE Nil]

\* forEachObserver without the return on an error: every observer is called
forEachObserverNoReturn(lg, k, e) ==
    [log |-> lg \o [j \in 1..numOb |-> Callback(e, j, k)],
     err |-> IF k = 0 THEN Nil ELSE ObserverError(k)]

\* p.forEachObserver: the observers are called in registration order; the
\* k-th returns an error (k = 0: none does), which ends the loop
forEachObserver(lg, k, e) ==
    [log |-> lg \o [j \in 1..(IF k = 0 THEN numOb ELSE k) |-> Callback(e, j, k)],
     err |-> IF k = 0 THEN Nil ELSE ObserverError(k)]

onHeader(lg, k, c) ==
    forEachObserver(lg, k, Event("OnHeader", c, AnyObject, 0, ZeroHash, 0, <<>>))

onInflatedObjectHeader(lg, k, t, objSize, pos) ==
    forEachObserver(lg, k,
        Event("OnInflatedObjectHeader", objSize, t, pos, ZeroHash, 0, <<>>))

\* onInflatedObjectContent reporting the offset of the first entry read
onInflatedObjectContentFirstPos(lg, k, h, pos, crc, content) ==
    forEachObserver(lg, k,
        Event("OnInflatedObjectContent", 0, AnyObject, OffsetOf(1), h, crc, content))

onInflatedObjectContent(lg, k, h, pos, crc, content) ==
    forEachObserver(lg, k,
        Event("OnInflatedObjectContent", 0, AnyObject, pos, h, crc, content))

onFooter(lg, k, h) ==
    forEachObserver(lg, k, Event("OnFooter", 0, AnyObject, 0, h, 0, <<>>))

\* -------------------------------------------------------- objectInfo
newDeltaObject(offset, length, t, parent) ==
    [Offset |-> offset, Length |-> length, Type |-> t, DiskType |-> t,
     ExternalRef |-> FALSE, Crc32 |-> 0, Parent |-> parent,
     Children |-> <<>>, SHA1 |-> ZeroHash]

newBaseObject(offset, length, t) == newDeltaObject(offset, length, t, 0)

\* the placeholder parent of a REF delta whose base is not in oiByHash
\* a placeholder that is not marked as an external reference
PlaceholderUnmarked(ref) ==
    [Offset |-> 0, Length |-> 0, Type |-> AnyObject, DiskType |-> AnyObject,
     ExternalRef |-> FALSE, Crc32 |-> 0, Parent |-> 0,
     Children |-> <<>>, SHA1 |-> ref]

Placeholder(ref) ==
    [Offset |-> 0, Length |-> 0, Type |-> AnyObject, DiskType |-> AnyObject,
     ExternalRef |-> TRUE, Crc32 |-> 0, Parent |-> 0,
     Children |-> <<>>, SHA1 |-> ref]

\* ------------------------------------------------------------- storage
\* SetEncodedObject without the test of the type
SetEncodedObjectAnyType(st, o) ==
    [store |-> st \cup {o}, h |-> getSHA1(o.t, o.d), err |-> Nil]

\* the write of a loose object: the delta types are rejected
SetEncodedObject(st, o) ==
    IF o.t = OFSDeltaObject \/ o.t = REFDeltaObject
    THEN [store |-> st, h |-> ZeroHash, err |-> ErrInvalidType]
    ELSE [store |-> st \cup {o}, h |-> getSHA1(o.t, o.d), err |-> Nil]

\* the read of an object by hash
EncodedObjectOf(st, h) ==
    IF \E o \in st : getSHA1(o.t, o.d) = h
    THEN [obj |-> CHOOSE o \in st : getSHA1(o.t, o.d) = h, err |-> Nil]
    ELSE [obj |-> [t |-> AnyObject, d |-> <<>>], err |-> ErrObjectNotFound]

\* ---------------------------------------------------------- the LRU
\* a lookup that takes the most recently used entry for any key
CacheIndexAny(c, k) == IF Len(c) > 0 THEN 1 ELSE 0

CacheIndex(c, k) ==
    IF \E i \in 1..Len(c) : c[i].k = k
    THEN CHOOSE i \in 1..Len(c) : c[i].k = k
    ELSE 0

\* the cache without its i-th entry (i = 0: the cache)
CacheDrop(c, i) ==
    IF i = 0 THEN c ELSE SubSeq(c, 1, i - 1) \o SubSeq(c, i + 1, Len(c))

\* the least recently used entries are evicted beyond the capacity
CacheTrim(c) == SubSeq(c, 1, IF Len(c) > cacheCap THEN cacheCap ELSE Len(c))

CacheHit(c, i) ==
    IF i = 0
    THEN [ok |-> FALSE, v |-> <<>>, cache |-> c]
    ELSE [ok |-> TRUE, v |-> c[i].v, cache |-> <<c[i]>> \o CacheDrop(c, i)]

\* a hit makes the entry the most recently used
CacheGet(c, k) == CacheHit(c, CacheIndex(c, k))

\* the new entry is the most recently used
CachePut(c, k, v) ==
    CacheTrim(<<[k |-> k, v |-> v]>> \o CacheDrop(c, CacheIndex(c, k)))

\* ------------------------------------------- the parser's heap, threaded
\* h: [nodes, cache, store, deltas, log, flt]; flt = n > 0: the n-th
\* external call from here fails, flt = 0: none does
Fails(h) == h.flt = 1

Tick(h) == [h EXCEPT !.flt = IF @ > 0 THEN @ - 1 ELSE 0]

R(h, b, err) == [h |-> h, b |-> b, err |-> err]

RD(h, b, dl, err) == [h |-> h, b |-> b, dl |-> dl, err |-> err]

\* the pack entry stored at an offset
EntryAt(offset) == pack[CHOOSE i \in 1..Len(pack) : OffsetOf(i) = offset]

\* the re-read of an entry: SeekFromStart, NextObjectHeader, NextObject
scannerRead(h, e) ==
    IF ~seekable THEN RD(h, <<>>, NoDelta, ErrSeekNotSupported)
    ELSE IF Fails(h) THEN RD(Tick(h), <<>>, NoDelta, ErrScanner)
    ELSE RD(Tick(h), e.content, e.delta, Nil)

readNode(h, n) ==
    IF ~seekable /\ IsDelta(n.DiskType)
    THEN IF n.Offset \in DOMAIN h.deltas.m
         THEN RD(h, <<>>, h.deltas.m[n.Offset], Nil)
         ELSE RD(h, <<>>, NoDelta, ErrDeltaNotCached)
    ELSE scannerRead(h, EntryAt(n.Offset))

readData(h, o) == readNode(h, h.nodes[o])

\* firstPatched with the hash taken before the type is propagated
firstPatchedOwnType(n, t, patched) ==
    [n EXCEPT !.Type = t, !.SHA1 = getSHA1(n.Type, patched), !.Length = Len(patched)]

\* firstPatched leaving the declared length of the delta in the node
firstPatchedDeclaredLength(n, t, patched) ==
    [n EXCEPT !.Type = t, !.SHA1 = getSHA1(t, patched)]

\* the first reconstruction of a delta node: its type is its parent's
firstPatched(n, t, patched) ==
    [n EXCEPT !.Type = t, !.SHA1 = getSHA1(t, patched), !.Length = Len(patched)]

applyPatched(h, o, p) ==
    IF p.err # Nil THEN R(h, <<>>, p.err)
    ELSE IF h.nodes[o].SHA1 = ZeroHash
    THEN R([h EXCEPT !.nodes[o] =
                firstPatched(@, h.nodes[h.nodes[o].Parent].Type, p.out)],
           p.out, Nil)
    ELSE R(h, p.out, Nil)

applyPatchBase(h, o, data, base) == applyPatched(h, o, PatchDelta(base, data))

storageWritten(h, t, data, w) ==
    IF w.err # Nil THEN R(h, <<>>, w.err)
    ELSE R([h EXCEPT !.store = w.store,
                     !.log = Append(@, Event("SetEncodedObject", 0, t, 0,
                                             w.h, 0, data))],
           data, Nil)

\* p.storage.SetEncodedObject of a MemoryObject of type t holding data
storageWrite(h, t, data) ==
    IF Fails(h) THEN R(Tick(h), <<>>, ErrStorageIO)
    ELSE storageWritten(Tick(h), t, data,
                        SetEncodedObject(h.store, [t |-> t, d |-> data]))

\* resolvePatched without the write to the storage
resolvePatchedNoWrite(ap, o) == ap

resolvePatched(ap, o) ==
    IF ap.err # Nil THEN ap
    ELSE IF hasStorage THEN storageWrite(ap.h, ap.h.nodes[o].Type, ap.b)
    ELSE ap

resolveRead(rd, o, base) ==
    IF rd.err # Nil THEN R(rd.h, <<>>, rd.err)
    ELSE resolvePatched(applyPatchBase(rd.h, o, rd.dl, base), o)

resolveObject(h, o, base) ==
    IF ~IsDelta(h.nodes[o].DiskType) THEN R(h, <<>>, Nil)
    ELSE resolveRead(readData(h, o), o, base)

\* p.storage.EncodedObject(AnyObject, o.SHA1) and the read of its payload
getStored(h, o, e) ==
    IF e.err # Nil THEN R(h, <<>>, e.err)
    ELSE R([h EXCEPT !.nodes[o].Type = e.obj.t], e.obj.d, Nil)

getFromStorage(h, o) ==
    IF Fails(h) THEN R(Tick(h), <<>>, ErrStorageIO)
    ELSE getStored(Tick(h), o, EncodedObjectOf(h.store, h.nodes[o].SHA1))

\* the reconstructed content of a node with children enters the LRU
getPut(r, n) ==
    IF r.err # Nil THEN r
    ELSE IF Len(n.Children) > 0
    THEN R([r.h EXCEPT !.cache = CachePut(@, n.Offset, r.b)], r.b, Nil)
    ELSE r

getBase(rd) == R(rd.h, rd.b, rd.err)

getDelta(base, o) ==
    IF base.err # Nil THEN base ELSE resolveObject(base.h, o, base.b)

RECURSIVE get(_, _)
getProbed(h, o, n, cg) ==
    IF ~cg.ok /\ hasStorage /\ ~IsDelta(n.Type) THEN getFromStorage(h, o)
    ELSE IF cg.ok THEN R(h, cg.v, Nil)
    ELSE IF n.ExternalRef THEN R(h, <<>>, ErrReferenceDeltaNotFound)
    ELSE getPut(IF IsDelta(n.DiskType)
                THEN getDelta(get(h, n.Parent), o)
                ELSE getBase(readData(h, o)),
                n)

getNode(h, o, n, cg) == getProbed([h EXCEPT !.cache = cg.cache], o, n, cg)

get(h, o) ==
    getNode(h, o, h.nodes[o],
            IF ~h.nodes[o].ExternalRef THEN CacheGet(h.cache, h.nodes[o].Offset)
            ELSE [ok |-> FALSE, v |-> <<>>, cache |-> h.cache])

\* the loop of resolveDeltas over obj.Children, from the i-th on
RECURSIVE resolveChildren(_, _, _, _)
resolveChild(r, children, i, content) ==
    IF r.err # Nil THEN r ELSE resolveChildren(r.h, children, i + 1, content)

resolveChildren(h, children, i, content) ==
    IF i > Len(children) THEN R(h, <<>>, Nil)
    ELSE resolveChild(resolveObject(h, children[i], content), children, i, content)

\* ---------------------------------------------------------- the parser
Init ==
    /\ pc = "new"
    /\ seekable \in BOOLEAN
    /\ hasStorage \in BOOLEAN
    /\ numOb \in 1..MaxOb
    /\ cacheCap \in {0, MaxCacheCap}
    /\ store \in (IF hasStorage THEN SUBSET ExternalObjects ELSE {{}})
    /\ pack = <<>>
    /\ count = 0
    /\ oi = <<>>
    /\ nodes = <<>>
    /\ oiByHash = EmptyMap
    /\ oiByOffset = EmptyMap
    /\ checksum = ZeroHash
    /\ sumErr = Nil
    /\ cache = <<>>
    /\ deltas = [nil |-> TRUE, m |-> EmptyMap]
    /\ log = <<>>
    /\ ix = 0
    /\ ri = 0
    /\ ret = [h |-> ZeroHash, err |-> Nil]
    /\ disk = <<>>
    /\ index = [nil |-> TRUE, m |-> EmptyMap]
    /\ sret = [op |-> ""]
    /\ keepDescriptors = FALSE
    /\ fds = [last |-> 0, open |-> {}, closed |-> {}]
    /\ writer = [state |-> "none", pack |-> 0]
    /\ faulty = FALSE
    /\ procs = <<>>
    /\ msg = NoMsg

\* a return that hands out the trailer of the pack with every error
ReturnTrailer(h, err) ==
    /\ pc' = "done"
    /\ ret' = [h |-> PackTrailer, err |-> err]

\* a return of (h, err) from Parse()
Return(h, err) ==
    /\ pc' = "done"
    /\ ret' = [h |-> h, err |-> err]

\* NewParserWithStorage refusing every source that is not seekable
NewParserSeekableOnly ==
    /\ pc = "new"
    /\ IF ~seekable
       THEN /\ pc' = "nil"
            /\ ret' = [h |-> ZeroHash, err |-> ErrNotSeekableSource]
            /\ UNCHANGED deltas
       ELSE /\ pc' = "init"
            /\ deltas' = [nil |-> seekable, m |-> EmptyMap]
            /\ UNCHANGED ret
    /\ UNCHANGED <<svars, msg, seekable, hasStorage, numOb, cacheCap, pack, count, oi,
                   nodes, oiByHash, oiByOffset, checksum, sumErr, cache,
                   store, log, ix, ri>>

NewParserWithStorage ==
    /\ pc = "new"
    /\ IF ~seekable /\ ~hasStorage
       THEN /\ pc' = "nil"
            /\ ret' = [h |-> ZeroHash, err |-> ErrNotSeekableSource]
            /\ UNCHANGED deltas
       ELSE /\ pc' = "init"
            /\ deltas' = [nil |-> seekable, m |-> EmptyMap]
            /\ UNCHANGED ret
    /\ UNCHANGED <<svars, msg, seekable, hasStorage, numOb, cacheCap, pack, count, oi,
                   nodes, oiByHash, oiByOffset, checksum, sumErr, cache,
                   store, log, ix, ri>>

\* p.init(): the pack header is read and announced
ParseInit ==
    /\ pc = "init"
    /\ \E herr \in {Nil, ErrScanner}, c \in 0..MaxCount, k \in 0..numOb :
        IF herr # Nil
        THEN /\ Return(ZeroHash, herr)
             /\ UNCHANGED <<count, oi, log, ix>>
        ELSE LET oh == onHeader(log, k, c)
             IN  /\ log' = oh.log
                 /\ IF oh.err # Nil
                    THEN /\ Return(ZeroHash, oh.err)
                         /\ UNCHANGED <<count, oi, ix>>
                    ELSE /\ count' = c
                         /\ oi' = [j \in 1..c |-> 0]
                         /\ ix' = 1
                         /\ pc' = "index"
                         /\ UNCHANGED ret
    /\ UNCHANGED <<svars, msg, seekable, hasStorage, numOb, cacheCap, pack, nodes,
                   oiByHash, oiByOffset, checksum, sumErr, cache, deltas,
                   store, ri>>

\* the checksum the scanner reports for the i-th entry
CrcOf(i) == 100 + i

\* one iteration of the loop of p.indexObjects(): `e` is the entry the
\* scanner reads, `fail` the call of the iteration that fails
IndexEntry(e, fail) ==
    LET offset == OffsetOf(ix)
        length == EntryLength(e)
        delta  == IsDelta(e.Type)
        found  == IF e.Type = OFSDeltaObject
                  THEN e.OffsetReference \in DOMAIN oiByOffset
                  ELSE e.Reference \in DOMAIN oiByHash
        \* the placeholder of a REF delta takes the next arena slot
        fresh  == e.Type = REFDeltaObject /\ ~found
        pid    == IF ~delta THEN 0
                  ELSE IF e.Type = OFSDeltaObject
                  THEN (IF found THEN oiByOffset[e.OffsetReference] ELSE 0)
                  ELSE IF found THEN oiByHash[e.Reference]
                  ELSE Len(nodes) + 1
        arena  == IF fresh THEN Append(nodes, Placeholder(e.Reference)) ELSE nodes
        id     == Len(arena) + 1
        byHash == IF fresh THEN MapPut(oiByHash, e.Reference, pid) ELSE oiByHash
        ota0   == IF delta THEN newDeltaObject(offset, length, e.Type, pid)
                  ELSE newBaseObject(offset, length, e.Type)
        linked == IF delta
                  THEN [Append(arena, ota0) EXCEPT ![pid].Children = Append(@, id)]
                  ELSE Append(arena, ota0)
        sha1   == getSHA1(e.Type, e.content)
        ota1   == [ota0 EXCEPT !.Crc32 = CrcOf(ix), !.Length = length,
                               !.SHA1 = IF delta THEN @ ELSE sha1]
        w      == SetEncodedObject(store, [t |-> e.Type, d |-> e.content])
    IN  IF fail = "header"
        THEN /\ Return(ZeroHash, ErrScanner)
             /\ UNCHANGED <<pack, nodes, oiByHash, oiByOffset, oi, deltas,
                            store, log, ix>>
        ELSE IF e.Type = OFSDeltaObject /\ ~found
        THEN /\ Return(ZeroHash, ErrObjectNotFound)
             /\ pack' = Append(pack, e)
             /\ UNCHANGED <<nodes, oiByHash, oiByOffset, oi, deltas, store,
                            log, ix>>
        ELSE IF fail = "object"
        THEN /\ Return(ZeroHash, ErrScanner)
             /\ pack' = Append(pack, e)
             /\ nodes' = linked
             /\ oiByHash' = byHash
             /\ UNCHANGED <<oiByOffset, oi, deltas, store, log, ix>>
        ELSE IF hasStorage /\ ~delta /\ (fail = "storage" \/ w.err # Nil)
        THEN /\ Return(ZeroHash, IF fail = "storage" THEN ErrStorageIO ELSE w.err)
             /\ pack' = Append(pack, e)
             /\ nodes' = [linked EXCEPT ![id] = ota1]
             /\ oiByHash' = MapPut(byHash, sha1, id)
             /\ UNCHANGED <<oiByOffset, oi, deltas, store, log, ix>>
        ELSE /\ pack' = Append(pack, e)
             /\ nodes' = [linked EXCEPT ![id] = ota1]
             /\ oiByHash' = IF delta THEN byHash ELSE MapPut(byHash, sha1, id)
             /\ IF hasStorage /\ ~delta
                THEN /\ store' = w.store
                     /\ log' = Append(log, Event("SetEncodedObject", 0, e.Type,
                                                 0, w.h, 0, e.content))
                ELSE UNCHANGED <<store, log>>
             /\ deltas' = IF delta /\ ~seekable
                          THEN [deltas EXCEPT !.m = MapPut(@, offset, e.delta)]
                          ELSE deltas
             /\ oiByOffset' = MapPut(oiByOffset, offset, id)
             /\ oi' = [oi EXCEPT ![ix] = id]
             /\ ix' = ix + 1
             /\ UNCHANGED <<pc, ret>>

indexObjects ==
    /\ pc = "index"
    /\ ix <= count
    /\ \/ IndexEntry(CHOOSE e \in Entries(ix) : TRUE, "header")
       \/ \E e \in Entries(ix) :
            \E fail \in {"none", "object"}
                \cup (IF hasStorage /\ ~IsDelta(e.Type) THEN {"storage"} ELSE {}) :
                IndexEntry(e, fail)
    /\ UNCHANGED <<svars, msg, seekable, hasStorage, numOb, cacheCap, count, checksum,
                   sumErr, cache, ri>>

\* Scanner.Checksum(): the trailer, or an error when it cannot be read
ScannerChecksum ==
    {[h |-> PackTrailer, err |-> Nil],
     [h |-> ZeroHash, err |-> EOF],
     [h |-> ZeroHash, err |-> ErrUnexpectedEOF]}

\* Parse() between the two passes
Checksum ==
    /\ pc = "index"
    /\ ix > count
    /\ \E c \in ScannerChecksum :
        /\ checksum' = c.h
        /\ sumErr' = c.err
        /\ IF c.err # Nil /\ c.err # EOF
           THEN /\ Return(ZeroHash, c.err)
                /\ UNCHANGED ri
           ELSE /\ pc' = "resolve"
                /\ ri' = 1
                /\ UNCHANGED ret
    /\ UNCHANGED <<svars, msg, seekable, hasStorage, numOb, cacheCap, pack, count, oi,
                   nodes, oiByHash, oiByOffset, cache, deltas, store, log, ix>>

Heap(f) == [nodes |-> nodes, cache |-> cache, store |-> store,
            deltas |-> deltas, log |-> log, flt |-> f]

HE(h, err) == [h |-> h, err |-> err]

\* the end of an iteration of resolveDeltas: the delta of a node whose
\* children were resolved leaves p.deltas
resolveDropped(c, obj) ==
    IF c.err # Nil THEN HE(c.h, c.err)
    ELSE IF IsDelta(obj.DiskType) /\ ~seekable
    THEN HE([c.h EXCEPT !.deltas.m = MapDel(@, obj.Offset)], Nil)
    ELSE HE(c.h, Nil)

\* resolveEmitted with p.deltas emptied before the children are resolved
resolveEmittedEarlyDrop(h, obj, content, err) ==
    IF err # Nil THEN HE(h, err)
    ELSE IF ~IsDelta(obj.Type) /\ Len(obj.Children) > 0
    THEN resolveDropped(resolveChildren([h EXCEPT !.deltas.m = EmptyMap],
                                        obj.Children, 1, content), obj)
    ELSE HE(h, Nil)

resolveEmitted(h, obj, content, err) ==
    IF err # Nil THEN HE(h, err)
    ELSE IF ~IsDelta(obj.Type) /\ Len(obj.Children) > 0
    THEN resolveDropped(resolveChildren(h, obj.Children, 1, content), obj)
    ELSE HE(h, Nil)

resolveContent(g, obj, ec) ==
    resolveEmitted([g.h EXCEPT !.log = ec.log], obj, g.b, ec.err)

\* resolveHeader without the content callback
resolveHeaderOnly(g, obj, eh, kc) ==
    resolveEmitted([g.h EXCEPT !.log = eh.log], obj, g.b, eh.err)

resolveHeader(g, obj, eh, kc) ==
    IF eh.err # Nil THEN HE([g.h EXCEPT !.log = eh.log], eh.err)
    ELSE resolveContent(g, obj,
            onInflatedObjectContent(eh.log, kc, obj.SHA1, obj.Offset,
                                    obj.Crc32, g.b))

resolveGot(g, obj, kh, kc) ==
    IF g.err # Nil THEN HE(g.h, g.err)
    ELSE resolveHeader(g, obj,
            onInflatedObjectHeader(g.h.log, kh, obj.Type, obj.Length, obj.Offset),
            kc)

resolveNode(g, o, kh, kc) == resolveGot(g, g.h.nodes[o], kh, kc)

\* the heap after one iteration of the loop of p.resolveDeltas() on the
\* node o, and the error that ends the loop
ResolveOne(h, o, kh, kc) == resolveNode(get(h, o), o, kh, kc)

ResolveStep(r) ==
    /\ nodes' = r.h.nodes
    /\ cache' = r.h.cache
    /\ store' = r.h.store
    /\ deltas' = r.h.deltas
    /\ log' = r.h.log
    /\ IF r.err # Nil
       THEN /\ Return(ZeroHash, r.err)
            /\ UNCHANGED ri
       ELSE /\ ri' = ri + 1
            /\ UNCHANGED <<pc, ret>>

resolveDeltas ==
    /\ pc = "resolve"
    /\ ri <= Len(oi)
    /\ \E f \in 0..MaxFault, kh \in 0..numOb :
        \E kc \in (IF kh = 0 THEN 0..numOb ELSE {0}) :
            ResolveStep(ResolveOne(Heap(f), oi[ri], kh, kc))
    /\ UNCHANGED <<svars, msg, seekable, hasStorage, numOb, cacheCap, pack, count, oi,
                   oiByHash, oiByOffset, checksum, sumErr, ix>>

\* the end of Parse(): the footer is announced and the checksum returned
Footer ==
    /\ pc = "resolve"
    /\ ri > Len(oi)
    /\ \E k \in 0..numOb :
        LET f == onFooter(log, k, checksum)
        IN  /\ log' = f.log
            /\ IF f.err # Nil
               THEN Return(ZeroHash, f.err)
               ELSE Return(checksum, Nil)
    /\ UNCHANGED <<svars, msg, seekable, hasStorage, numOb, cacheCap, pack, count, oi,
                   nodes, oiByHash, oiByOffset, checksum, sumErr, cache,
                   deltas, store, ix, ri>>

Next ==
    \/ NewParserWithStorage
    \/ ParseInit
    \/ indexObjects
    \/ Checksum
    \/ resolveDeltas
    \/ Footer

Spec == Init /\ [][Next]_vars

\* ------------------------------------------------ filesystem ObjectStorage
\* the object directories: the repository's own and two it may list as
\* alternates
Dirs == {"root", "altA", "altB"}

BlobHash == getSHA1(BlobObject, <<1>>)

CommitHash == getSHA1(CommitObject, <<1>>)

Hashes == {BlobHash, CommitHash}

\* what a directory may hold: loose objects, and packs (each the set of the
\* hashes its idx file lists) in the order ObjectPacks() lists them
DirContents(d) ==
    {[loose |-> {}, packs |-> <<>>],
     [loose |-> {}, packs |-> <<{BlobHash}>>]}
    \cup (IF d = "altB" THEN {}
          ELSE {[loose |-> {BlobHash}, packs |-> <<>>]})
    \cup (IF d = "root"
          THEN {[loose |-> {CommitHash},
                 packs |-> <<{BlobHash}, {BlobHash, CommitHash}>>]}
          ELSE {})

\* what objects/info/alternates of a directory may list, in order
DirAlternates(d) ==
    IF d = "root" THEN {<<>>, <<"altA">>, <<"altA", "altB">>}
    ELSE IF d = "altA" THEN {<<>>, <<"root">>}
    ELSE {<<>>}

\* the one call to the file system that fails during an operation, if any
NoFault == [dir |-> "", call |-> "", at |-> ""]

Faults ==
    {NoFault}
    \cup [dir : Dirs, call : {"Object", "ObjectPacks", "ObjectPack",
                              "Alternates"}, at : {""}]
    \cup [dir : {"root", "altA"}, call : {"ObjectPackIdx"},
          at : {"first", "last"}]

Fault(fl, d, call) == fl.dir = d /\ fl.call = call

\* the orders in which the iteration over s.index may meet the packs that
\* hold h: one when no directory has two such packs
Orders(h) ==
    IF \E d \in Dirs : \E i, j \in DOMAIN disk[d].packs :
            i # j /\ h \in disk[d].packs[i] /\ h \in disk[d].packs[j]
    THEN {"asc", "desc"}
    ELSE {"asc"}

\* the failures an operation may meet
FaultsNow == IF faulty THEN Faults ELSE {NoFault}

\* the runtime's fatal error on unbounded recursion: the call never returns
StackOverflow == "stack overflow"

NoObject == [h |-> ZeroHash, t |-> "", dir |-> "", from |-> "", pack |-> 0]

\* the object a directory serves for a hash, from its loose file or a pack
StoredObject(h, d, from, pk) ==
    [h |-> h, t |-> h[1], dir |-> d, from |-> from, pack |-> pk]

\* s.index of a new ObjectStorage
NilIndex == [nil |-> TRUE, m |-> EmptyMap]

\* what an operation returns: (obj, err) or (size, err), s.index after it,
\* what each alternate it asked returned, and the pack whose file it opened
\* in its own directory (0: none)
SR(obj, err, idx) ==
    [obj |-> obj, err |-> err, idx |-> idx, alts |-> <<>>, size |-> 0,
     opened |-> 0, out |-> <<>>]

getFromUnpacked(d, idx, h, fl) ==
    IF Fault(fl, d, "Object") THEN SR(NoObject, ErrStorageIO, idx)
    ELSE IF h \in disk[d].loose
    THEN SR(StoredObject(h, d, "loose", 0), Nil, idx)
    ELSE SR(NoObject, ErrObjectNotFound, idx)

\* s.index once the idx files of the first n packs are loaded
loadIdxFile(d, n) == [i \in 1..n |-> disk[d].packs[i]]

\* how many idx files load before the failing one
LoadedBefore(d, fl) ==
    IF fl.at = "first" THEN 0 ELSE Len(disk[d].packs) - 1

requireIndex(d, idx, fl) ==
    IF ~idx.nil THEN [idx |-> idx, err |-> Nil]
    ELSE IF Fault(fl, d, "ObjectPacks")
    THEN [idx |-> [nil |-> FALSE, m |-> EmptyMap], err |-> ErrStorageIO]
    ELSE IF Fault(fl, d, "ObjectPackIdx") /\ Len(disk[d].packs) > 0
    THEN [idx |-> [nil |-> FALSE, m |-> loadIdxFile(d, LoadedBefore(d, fl))],
          err |-> ErrStorageIO]
    ELSE [idx |-> [nil |-> FALSE, m |-> loadIdxFile(d, Len(disk[d].packs))],
          err |-> Nil]

\* the packs of s.index that hold h
PacksWith(idx, h) == {i \in DOMAIN idx.m : h \in idx.m[i]}

\* the pack the iteration over the map s.index meets first (0: none); the
\* order of that iteration is not fixed
findObjectInPackfile(idx, h, ord) ==
    IF PacksWith(idx, h) = {} THEN 0
    ELSE IF ord = "asc"
    THEN CHOOSE i \in PacksWith(idx, h) : \A j \in PacksWith(idx, h) : i <= j
    ELSE CHOOSE i \in PacksWith(idx, h) : \A j \in PacksWith(idx, h) : i >= j

packFound(d, idx, pk, h, fl) ==
    IF pk = 0 THEN SR(NoObject, ErrObjectNotFound, idx)
    ELSE IF Fault(fl, d, "ObjectPack") THEN SR(NoObject, ErrStorageIO, idx)
    ELSE [SR(StoredObject(h, d, "pack", pk), Nil, idx) EXCEPT !.opened = pk]

packIndexed(d, rq, h, fl, ord) ==
    IF rq.err # Nil THEN SR(NoObject, rq.err, rq.idx)
    ELSE packFound(d, rq.idx, findObjectInPackfile(rq.idx, h, ord), h, fl)

getFromPackfile(d, idx, h, fl, ord) ==
    packIndexed(d, requireIndex(d, idx, fl), h, fl, ord)

\* the end of EncodedObject without the type filter
encodedUnfiltered(r, t) ==
    IF r.err # Nil THEN [r EXCEPT !.obj = NoObject] ELSE r

\* the end of EncodedObject: the error, the type filter, the object
encodedFiltered(r, t) ==
    IF r.err # Nil THEN [r EXCEPT !.obj = NoObject]
    ELSE IF t # AnyObject /\ r.obj.t # t
    THEN [r EXCEPT !.obj = NoObject, !.err = ErrObjectNotFound]
    ELSE r

Asked(d, err) == [dir |-> d, err |-> err]

\* the size in the header of the loose file of h
encodedObjectSizeFromUnpacked(d, idx, h, fl) ==
    IF Fault(fl, d, "Object") THEN SR(NoObject, ErrStorageIO, idx)
    ELSE IF h \in disk[d].loose
    THEN [SR(NoObject, Nil, idx) EXCEPT !.size = Len(h[3])]
    ELSE SR(NoObject, ErrObjectNotFound, idx)

sizeFound(d, idx, pk, h, fl) ==
    IF pk = 0 THEN SR(NoObject, ErrObjectNotFound, idx)
    ELSE IF Fault(fl, d, "ObjectPack") THEN SR(NoObject, ErrStorageIO, idx)
    ELSE [SR(NoObject, Nil, idx) EXCEPT !.size = Len(h[3]), !.opened = pk]

sizeIndexed(d, rq, h, fl, ord) ==
    IF rq.err # Nil THEN SR(NoObject, rq.err, rq.idx)
    ELSE sizeFound(d, rq.idx, findObjectInPackfile(rq.idx, h, ord), h, fl)

encodedObjectSizeFromPackfile(d, idx, h, fl, ord) ==
    sizeIndexed(d, requireIndex(d, idx, fl), h, fl, ord)

sizeUnpacked(d, u, h, fl, ord) ==
    IF u.err # Nil /\ u.err # ErrObjectNotFound THEN u
    ELSE IF u.err = Nil THEN u
    ELSE encodedObjectSizeFromPackfile(d, u.idx, h, fl, ord)

EncodedObjectSize(d, idx, h, fl, ord) ==
    sizeUnpacked(d, encodedObjectSizeFromUnpacked(d, idx, h, fl), h, fl, ord)

RECURSIVE EncodedObject(_, _, _, _, _, _, _)

RECURSIVE encodedAlternate(_, _, _, _, _, _, _, _, _)

\* the alternate dotgits[i] has answered r
encodedAsked(p, dotgits, i, seen, r, t, h, fl, ord, stack) ==
    IF r.err = StackOverflow
    THEN [p EXCEPT !.obj = NoObject, !.err = StackOverflow, !.alts = seen]
    ELSE IF r.err # Nil
    THEN encodedAlternate(p, dotgits, i + 1,
                          Append(seen, Asked(dotgits[i], r.err)),
                          t, h, fl, ord, stack)
    ELSE [p EXCEPT !.obj = r.obj, !.err = Nil,
                   !.alts = Append(seen, Asked(dotgits[i], Nil))]

\* the loop over the alternates, at dotgits[i]; each is a new ObjectStorage,
\* and one that is already being asked on this path never answers
encodedAlternate(p, dotgits, i, seen, t, h, fl, ord, stack) ==
    IF i > Len(dotgits) THEN [encodedFiltered(p, t) EXCEPT !.alts = seen]
    ELSE IF dotgits[i] \in stack
    THEN [p EXCEPT !.obj = NoObject, !.err = StackOverflow, !.alts = seen]
    ELSE encodedAsked(p, dotgits, i, seen,
                      EncodedObject(dotgits[i], NilIndex, t, h, fl, ord,
                                    stack \cup {dotgits[i]}),
                      t, h, fl, ord, stack)

encodedAlternates(d, p, t, h, fl, ord, stack) ==
    IF Fault(fl, d, "Alternates")
    THEN [encodedFiltered(p, t) EXCEPT !.alts = <<Asked(d, ErrStorageIO)>>]
    ELSE encodedAlternate(p, disk[d].alts, 1, <<>>, t, h, fl, ord, stack)

encodedPacked(d, p, t, h, fl, ord, stack) ==
    IF p.err = ErrObjectNotFound
    THEN encodedAlternates(d, p, t, h, fl, ord, stack)
    ELSE encodedFiltered(p, t)

encodedUnpacked(d, u, t, h, fl, ord, stack) ==
    IF u.err = ErrObjectNotFound
    THEN encodedPacked(d, getFromPackfile(d, u.idx, h, fl, ord),
                       t, h, fl, ord, stack)
    ELSE encodedFiltered(u, t)

EncodedObject(d, idx, t, h, fl, ord, stack) ==
    encodedUnpacked(d, getFromUnpacked(d, idx, h, fl), t, h, fl, ord, stack)

NoCall == [op |-> "NewObjectStorage", t |-> AnyObject, h |-> ZeroHash,
           fault |-> FALSE, obj |-> NoObject, err |-> Nil, alts |-> <<>>,
           size |-> 0, out |-> <<>>]

NoDescriptors == [last |-> 0, open |-> {}, closed |-> {}]

NoWriter == [state |-> "none", pack |-> 0]

InitStorage ==
    /\ pc = "new"
    /\ seekable = TRUE
    /\ hasStorage = FALSE
    /\ numOb = 1
    /\ cacheCap = 0
    /\ store = {}
    /\ pack = <<>>
    /\ count = 0
    /\ oi = <<>>
    /\ nodes = <<>>
    /\ oiByHash = EmptyMap
    /\ oiByOffset = EmptyMap
    /\ checksum = ZeroHash
    /\ sumErr = Nil
    /\ cache = <<>>
    /\ deltas = [nil |-> TRUE, m |-> EmptyMap]
    /\ log = <<>>
    /\ ix = 0
    /\ ri = 0
    /\ ret = [h |-> ZeroHash, err |-> Nil]
    /\ disk \in {[d \in Dirs |-> [loose |-> c[d].loose, packs |-> c[d].packs,
                                  alts |-> a[d]]] :
                 c \in [Dirs -> UNION {DirContents(d) : d \in Dirs}],
                 a \in [Dirs -> UNION {DirAlternates(d) : d \in Dirs}]}
    /\ \A d \in Dirs :
        /\ [loose |-> disk[d].loose, packs |-> disk[d].packs] \in DirContents(d)
        /\ disk[d].alts \in DirAlternates(d)
    /\ index = NilIndex
    /\ sret = NoCall
    /\ keepDescriptors = FALSE
    /\ fds = NoDescriptors
    /\ writer = NoWriter
    /\ faulty = TRUE
    /\ procs = <<>>
    /\ msg = NoMsg

\* what the caller of an operation on the root's ObjectStorage got
Returned(op, t, h, fl, r) ==
    [op |-> op, t |-> t, h |-> h, fault |-> fl # NoFault,
     obj |-> r.obj, err |-> r.err, alts |-> r.alts, size |-> r.size,
     out |-> r.out]

\* the pack descriptors after an operation: the file of the pack it opened
\* is closed on return, or kept
descriptorsAfter(r, closes) ==
    IF r.opened = 0 THEN [last |-> 0, open |-> fds.open, closed |-> {}]
    ELSE IF closes
    THEN [last |-> r.opened, open |-> fds.open \ {r.opened},
          closed |-> {r.opened}]
    ELSE [last |-> r.opened, open |-> fds.open \cup {r.opened},
          closed |-> {}]

CallEncodedObject ==
    \E t \in {AnyObject} \cup Types, h \in Hashes, fl \in FaultsNow :
      \E ord \in Orders(h) :
        LET r == EncodedObject("root", index, t, h, fl, ord, {})
        IN  /\ index' = r.idx
            /\ sret' = Returned("EncodedObject", t, h, fl, r)
            /\ fds' = descriptorsAfter(r, ~keepDescriptors)
            /\ UNCHANGED <<pvars, msg, disk, keepDescriptors, writer, faulty, procs>>

CallEncodedObjectSize ==
    \E h \in Hashes, fl \in FaultsNow : \E ord \in Orders(h) :
        LET r == EncodedObjectSize("root", index, h, fl, ord)
        IN  /\ index' = r.idx
            /\ sret' = Returned("EncodedObjectSize", AnyObject, h, fl, r)
            /\ fds' = descriptorsAfter(r, TRUE)
            /\ UNCHANGED <<pvars, msg, disk, keepDescriptors, writer, faulty, procs>>

\* Reindex leaving s.index as it is
ReindexKept ==
    /\ ~index.nil
    /\ index' = index
    /\ sret' = [NoCall EXCEPT !.op = "Reindex"]
    /\ fds' = [fds EXCEPT !.last = 0, !.closed = {}]
    /\ UNCHANGED <<pvars, msg, disk, keepDescriptors, writer, faulty, procs>>

Reindex ==
    /\ ~index.nil
    /\ index' = NilIndex
    /\ sret' = [NoCall EXCEPT !.op = "Reindex"]
    /\ fds' = [fds EXCEPT !.last = 0, !.closed = {}]
    /\ UNCHANGED <<pvars, msg, disk, keepDescriptors, writer, faulty, procs>>

NextStorage ==
    \/ CallEncodedObject
    \/ CallEncodedObjectSize
    \/ Reindex

SpecStorage == InitStorage /\ [][NextStorage]_vars

\* ----------------------------------- one object directory, read and written
\* the most packs the object directory comes to hold
MaxPacks == 2

\* the packs a writer or an external git may add
NewPacks == {{CommitHash}, {BlobHash, CommitHash}}

\* the runtime's panic on a nil map or a nil index
Panic == "panic"

\* the hashes of a set in the order a listing or a pack gives them
HashOrder(ord) ==
    IF ord = "asc" THEN <<BlobHash, CommitHash>> ELSE <<CommitHash, BlobHash>>

Listed(S, ord) == SelectSeq(HashOrder(ord), LAMBDA h : h \in S)

\* ObjectStorage.HasEncodedObject
hasPacked(rq, h) ==
    IF rq.err # Nil THEN SR(NoObject, rq.err, rq.idx)
    ELSE IF PacksWith(rq.idx, h) = {}
    THEN SR(NoObject, ErrObjectNotFound, rq.idx)
    ELSE SR(NoObject, Nil, rq.idx)

HasEncodedObject(d, idx, h, fl) ==
    IF Fault(fl, d, "Object") THEN SR(NoObject, ErrStorageIO, idx)
    ELSE IF h \in disk[d].loose THEN SR(NoObject, Nil, idx)
    ELSE hasPacked(requireIndex(d, idx, fl), h)

\* ObjectStorage.DeltaObject: the lookup without the alternates
deltaUnpacked(d, u, t, h, fl, ord) ==
    IF u.err = ErrObjectNotFound
    THEN encodedFiltered(getFromPackfile(d, u.idx, h, fl, ord), t)
    ELSE encodedFiltered(u, t)

DeltaObject(d, idx, t, h, fl, ord) ==
    deltaUnpacked(d, getFromUnpacked(d, idx, h, fl), t, h, fl, ord)

\* objectsIter: the loose objects of type t, in the listed order
objectsIter(t, objects) ==
    [i \in 1..Len(SelectSeq(objects, LAMBDA h : t = AnyObject \/ h[1] = t)) |->
        StoredObject(SelectSeq(objects, LAMBDA h : t = AnyObject \/ h[1] = t)[i],
                     "root", "loose", 0)]

\* packfileIter over the pack pk: its objects of type t but those in seen
packfileIter(idx, pk, t, seen, ord) ==
    [i \in 1..Len(SelectSeq(Listed(idx.m[pk], ord),
                            LAMBDA h : (t = AnyObject \/ h[1] = t)
                                       /\ h \notin seen)) |->
        StoredObject(SelectSeq(Listed(idx.m[pk], ord),
                               LAMBDA h : (t = AnyObject \/ h[1] = t)
                                          /\ h \notin seen)[i],
                     "root", "pack", pk)]

\* lazyPackfilesIter drained: the packs listed, from the pk-th on, each
\* opened with its index of s.index
RECURSIVE lazyPackfilesIter(_, _, _, _, _, _, _)
lazyPackfilesIter(r, packs, pk, t, seen, ord, fl) ==
    IF pk > packs THEN r
    ELSE IF Fault(fl, "root", "ObjectPack") THEN [r EXCEPT !.err = ErrStorageIO]
    ELSE IF pk \notin DOMAIN r.idx.m THEN [r EXCEPT !.err = Panic]
    ELSE lazyPackfilesIter(
            [r EXCEPT !.out = @ \o packfileIter(r.idx, pk, t, seen, ord),
                      !.opened = pk],
            packs, pk + 1, t, seen, ord, fl)

buildPackfileIters(r, rq, t, seen, ord, fl) ==
    IF rq.err # Nil THEN [r EXCEPT !.err = rq.err, !.idx = rq.idx, !.out = <<>>]
    ELSE lazyPackfilesIter([r EXCEPT !.idx = rq.idx],
                           Len(disk["root"].packs), 1, t, seen, ord, fl)

\* IterEncodedObjects(t) and the ForEach that drains the iterator
IterEncodedObjects(idx, t, ord, fl) ==
    IF Fault(fl, "root", "Object") THEN SR(NoObject, ErrStorageIO, idx)
    ELSE buildPackfileIters(
            [SR(NoObject, Nil, idx) EXCEPT
                !.out = objectsIter(t, Listed(disk["root"].loose, ord))],
            requireIndex("root", idx, fl), t, disk["root"].loose, ord, fl)

\* the parser vanishes from the behaviours of the storage
NoParser ==
    /\ pc = "new"
    /\ seekable = TRUE
    /\ hasStorage = FALSE
    /\ numOb = 1
    /\ cacheCap = 0
    /\ store = {}
    /\ pack = <<>>
    /\ count = 0
    /\ oi = <<>>
    /\ nodes = <<>>
    /\ oiByHash = EmptyMap
    /\ oiByOffset = EmptyMap
    /\ checksum = ZeroHash
    /\ sumErr = Nil
    /\ cache = <<>>
    /\ deltas = [nil |-> TRUE, m |-> EmptyMap]
    /\ log = <<>>
    /\ ix = 0
    /\ ri = 0
    /\ ret = [h |-> ZeroHash, err |-> Nil]

\* a repository without alternates, on a file system that does not fail
InitRepository ==
    /\ NoParser
    /\ disk \in {[d \in Dirs |-> IF d = "root"
                                 THEN [loose |-> c.loose, packs |-> c.packs,
                                       alts |-> <<>>]
                                 ELSE [loose |-> {}, packs |-> <<>>,
                                       alts |-> <<>>]] :
                 c \in DirContents("root")}
    /\ index = NilIndex
    /\ sret = NoCall
    /\ keepDescriptors \in BOOLEAN
    /\ fds = NoDescriptors
    /\ writer = NoWriter
    /\ faulty = FALSE
    /\ procs = <<>>
    /\ msg = NoMsg

CallHasEncodedObject ==
    \E h \in Hashes, fl \in FaultsNow :
        LET r == HasEncodedObject("root", index, h, fl)
        IN  /\ index' = r.idx
            /\ sret' = Returned("HasEncodedObject", AnyObject, h, fl, r)
            /\ fds' = descriptorsAfter(r, TRUE)
            /\ UNCHANGED <<pvars, msg, disk, keepDescriptors, writer, faulty, procs>>

CallDeltaObject ==
    \E t \in {AnyObject} \cup Types, h \in Hashes, fl \in FaultsNow :
      \E ord \in Orders(h) :
        LET r == DeltaObject("root", index, t, h, fl, ord)
        IN  /\ index' = r.idx
            /\ sret' = Returned("DeltaObject", t, h, fl, r)
            /\ fds' = descriptorsAfter(r, ~keepDescriptors)
            /\ UNCHANGED <<pvars, msg, disk, keepDescriptors, writer, faulty, procs>>

\* SetEncodedObject of an object of type t with the payload <<1>>
CallSetEncodedObject ==
    \E t \in Types \cup {OFSDeltaObject, REFDeltaObject},
       fail \in (IF faulty THEN BOOLEAN ELSE {FALSE}) :
        LET w == SetEncodedObject({}, [t |-> t, d |-> <<1>>])
        IN  /\ IF w.err = Nil /\ ~fail
               THEN disk' = [disk EXCEPT !["root"].loose = @ \cup {w.h}]
               ELSE UNCHANGED disk
            /\ sret' = [NoCall EXCEPT
                            !.op = "SetEncodedObject", !.t = t,
                            !.fault = fail,
                            !.h = IF w.err = Nil /\ ~fail THEN w.h ELSE ZeroHash,
                            !.err = IF w.err # Nil THEN w.err
                                    ELSE IF fail THEN ErrStorageIO ELSE Nil]
            /\ fds' = [fds EXCEPT !.last = 0, !.closed = {}]
            /\ UNCHANGED <<pvars, msg, index, keepDescriptors, writer, faulty, procs>>

\* the descriptors after an iteration over the packs 1..n
descriptorsIterated(n) ==
    [last |-> n,
     open |-> IF keepDescriptors THEN fds.open \cup (1..n) ELSE fds.open \ (1..n),
     closed |-> IF keepDescriptors THEN {} ELSE 1..n]

CallIterEncodedObjects ==
    \E t \in {AnyObject} \cup Types, fl \in FaultsNow, ord \in {"asc", "desc"} :
        LET r == IterEncodedObjects(index, t, ord, fl)
        IN  /\ index' = r.idx
            /\ sret' = Returned("IterEncodedObjects", t, ZeroHash, fl, r)
            /\ fds' = descriptorsIterated(r.opened)
            /\ UNCHANGED <<pvars, msg, disk, keepDescriptors, writer, faulty, procs>>

\* PackfileWriter(): the index is required and a writer created
PackfileWriter ==
    /\ writer.state = "none"
    /\ Len(disk["root"].packs) < MaxPacks
    /\ \E fl \in FaultsNow :
        LET rq == requireIndex("root", index, fl)
        IN  /\ index' = rq.idx
            /\ writer' = IF rq.err = Nil THEN [writer EXCEPT !.state = "open"]
                         ELSE writer
            /\ sret' = [NoCall EXCEPT !.op = "PackfileWriter",
                                      !.fault = fl # NoFault, !.err = rq.err]
    /\ fds' = [fds EXCEPT !.last = 0, !.closed = {}]
    /\ UNCHANGED <<pvars, msg, disk, keepDescriptors, faulty, procs>>

\* Close() of the writer: the pack is saved, then Notify stores its index in
\* s.index, which panics on a nil map
WriterClose ==
    /\ writer.state = "open"
    /\ Len(disk["root"].packs) < MaxPacks
    /\ \E p \in NewPacks :
        /\ disk' = [disk EXCEPT !["root"].packs = Append(@, p)]
        /\ writer' = [state |-> "closed", pack |-> Len(disk["root"].packs) + 1]
        /\ index' = IF index.nil THEN index
                    ELSE [index EXCEPT !.m =
                            MapPut(@, Len(disk["root"].packs) + 1, p)]
        /\ sret' = [NoCall EXCEPT !.op = "WriterClose",
                                  !.err = IF index.nil THEN Panic ELSE Nil]
    /\ fds' = [fds EXCEPT !.last = 0, !.closed = {}]
    /\ UNCHANGED <<pvars, msg, keepDescriptors, faulty, procs>>

\* git adds a pack to the object directory behind the storage's back
ExternalPack ==
    /\ Len(disk["root"].packs) < MaxPacks
    /\ \E p \in NewPacks :
        disk' = [disk EXCEPT !["root"].packs = Append(@, p)]
    /\ sret' = [NoCall EXCEPT !.op = "git repack"]
    /\ fds' = [fds EXCEPT !.last = 0, !.closed = {}]
    /\ UNCHANGED <<pvars, msg, index, keepDescriptors, writer, faulty, procs>>

\* ObjectStorage.Close(): the directory closes every descriptor it keeps
Close ==
    /\ fds.open # {}
    /\ fds' = [last |-> 0, open |-> {}, closed |-> fds.open]
    /\ sret' = [NoCall EXCEPT !.op = "Close"]
    /\ UNCHANGED <<pvars, msg, disk, index, keepDescriptors, writer, faulty, procs>>

NextRepository ==
    \/ CallEncodedObject
    \/ CallEncodedObjectSize
    \/ CallHasEncodedObject
    \/ CallDeltaObject
    \/ CallSetEncodedObject
    \/ CallIterEncodedObjects
    \/ PackfileWriter
    \/ WriterClose
    \/ ExternalPack
    \/ Reindex
    \/ Close

SpecRepository == InitRepository /\ [][NextRepository]_vars

\* ---------------------------------------------------------------------
\* Goroutines sharing one ObjectStorage: each runs EncodedObject(AnyObject, h)
\* on a repository without alternates, one statement of requireIndex at a
\* time. ObjectStorage has no lock.

MaxThreads == 2

Threads == 1..MaxThreads

Idle == [pc |-> "idle", h |-> ZeroHash, n |-> 0, i |-> 0, pk |-> 0]

\* the Go runtime stopped the program: concurrent map writes
Fatal == [t \in Threads |-> [Idle EXCEPT !.pc = "fatal"]]

\* the goroutines other than p that are reading or writing the map s.index
MapUsers(p) ==
    {q \in Threads \ {p} : procs[q].pc \in {"loadIdxFile", "findObjectInPackfile"}}

InitConcurrent ==
    /\ NoParser
    /\ disk \in {[d \in Dirs |-> IF d = "root"
                                 THEN [loose |-> c.loose, packs |-> c.packs,
                                       alts |-> <<>>]
                                 ELSE [loose |-> {}, packs |-> <<>>,
                                       alts |-> <<>>]] :
                 c \in DirContents("root")}
    /\ index = NilIndex
    /\ sret = NoCall
    /\ keepDescriptors = FALSE
    /\ fds = NoDescriptors
    /\ writer = NoWriter
    /\ faulty = FALSE
    /\ procs = [t \in Threads |-> Idle]
    /\ msg = NoMsg

\* a goroutine calls EncodedObject(AnyObject, h)
GoEncodedObject(p) ==
    /\ procs[p].pc = "idle"
    /\ \E h \in Hashes :
        procs' = [procs EXCEPT ![p] = [Idle EXCEPT !.pc = "getFromUnpacked",
                                                   !.h = h]]
    /\ UNCHANGED <<pvars, msg, disk, index, sret, keepDescriptors, fds, writer, faulty>>

\* the loose object, or on to getFromPackfile and its requireIndex
StepUnpacked(p) ==
    /\ procs[p].pc = "getFromUnpacked"
    /\ procs' = [procs EXCEPT ![p].pc =
                    IF procs[p].h \in disk["root"].loose THEN "done"
                    ELSE "requireIndex"]
    /\ UNCHANGED <<pvars, msg, disk, index, sret, keepDescriptors, fds, writer, faulty>>

\* if s.index != nil { return nil }
StepRequireIndex(p) ==
    /\ procs[p].pc = "requireIndex"
    /\ procs' = [procs EXCEPT ![p].pc =
                    IF index.nil THEN "make" ELSE "findObjectInPackfile"]
    /\ UNCHANGED <<pvars, msg, disk, index, sret, keepDescriptors, fds, writer, faulty>>

\* s.index = make(map[plumbing.Hash]idxfile.Index)
StepMake(p) ==
    /\ procs[p].pc = "make"
    /\ index' = [nil |-> FALSE, m |-> EmptyMap]
    /\ procs' = [procs EXCEPT ![p].pc = "ObjectPacks"]
    /\ UNCHANGED <<pvars, msg, disk, sret, keepDescriptors, fds, writer, faulty>>

\* packs, err := s.dir.ObjectPacks()
StepObjectPacks(p) ==
    /\ procs[p].pc = "ObjectPacks"
    /\ procs' = [procs EXCEPT ![p].n = Len(disk["root"].packs),
                              ![p].i = 1,
                              ![p].pc = IF Len(disk["root"].packs) = 0
                                        THEN "findObjectInPackfile"
                                        ELSE "loadIdxFile"]
    /\ UNCHANGED <<pvars, msg, disk, index, sret, keepDescriptors, fds, writer, faulty>>

\* one turn of the loop over packs: s.index[h] = idxf; while another
\* goroutine uses the map the runtime may stop the program instead
StepLoadIdxFile(p) ==
    /\ procs[p].pc = "loadIdxFile"
    /\ \/ /\ index' = [index EXCEPT !.m = MapPut(@, procs[p].i,
                                            disk["root"].packs[procs[p].i])]
          /\ procs' = [procs EXCEPT ![p].i = @ + 1,
                                    ![p].pc = IF procs[p].i = procs[p].n
                                              THEN "findObjectInPackfile"
                                              ELSE "loadIdxFile"]
       \/ /\ MapUsers(p) # {}
          /\ index' = index
          /\ procs' = Fatal
    /\ UNCHANGED <<pvars, msg, disk, sret, keepDescriptors, fds, writer, faulty>>

\* the lookup of h in s.index, after requireIndex returned nil
StepFind(p) ==
    /\ procs[p].pc = "findObjectInPackfile"
    /\ \E ord \in Orders(procs[p].h) :
        procs' = [procs EXCEPT ![p].pk = findObjectInPackfile(index, procs[p].h, ord),
                               ![p].pc = "done"]
    /\ UNCHANGED <<pvars, msg, disk, index, sret, keepDescriptors, fds, writer, faulty>>

\* EncodedObject returns to the goroutine
StepReturn(p) ==
    /\ procs[p].pc = "done"
    /\ procs' = [procs EXCEPT ![p] = Idle]
    /\ UNCHANGED <<pvars, msg, disk, index, sret, keepDescriptors, fds, writer, faulty>>

NextConcurrent ==
    \E p \in Threads :
        \/ GoEncodedObject(p)
        \/ StepUnpacked(p)
        \/ StepRequireIndex(p)
        \/ StepMake(p)
        \/ StepObjectPacks(p)
        \/ StepLoadIdxFile(p)
        \/ StepFind(p)
        \/ StepReturn(p)

SpecConcurrent == InitConcurrent /\ [][NextConcurrent]_vars

\* ---------------------------------------------------------------------
\* x/gitService: the message of a push and its reference updates

MaxCommands == 2

CreateAction == "create"
UpdateAction == "update"
DeleteAction == "delete"
InvalidAction == "invalid"

\* the errors of the SDK and of validate()
ErrInvalidAddress == "invalid address"
ErrUnknownRequest(text) == "unknown request: " \o text
ErrMalformedCommand == "Malformed command"

\* Action with the test for a deletion taken first
ActionDeleteFirst(c) ==
    IF c.New = ZeroHash THEN DeleteAction
    ELSE IF c.Old = ZeroHash /\ c.New = ZeroHash THEN InvalidAction
    ELSE IF c.Old = ZeroHash THEN CreateAction
    ELSE UpdateAction

\* UpdateReferenceCommand.Action
Action(c) ==
    IF c.Old = ZeroHash /\ c.New = ZeroHash THEN InvalidAction
    ELSE IF c.Old = ZeroHash THEN CreateAction
    ELSE IF c.New = ZeroHash THEN DeleteAction
    ELSE UpdateAction

\* UpdateReferenceCommand.validate
validate(c) == IF Action(c) = InvalidAction THEN ErrMalformedCommand ELSE Nil

\* MsgUpdateReferences.ValidateBasic
ValidateBasic(m) ==
    IF Len(m.Author) = 0 THEN ErrInvalidAddress
    ELSE IF Len(m.URI) = 0 THEN ErrUnknownRequest("URI cannot be empty")
    ELSE IF Len(m.Commands) = 0 THEN ErrUnknownRequest("Commands cannot be empty")
    ELSE Nil

\* what the messages of the model are made of; a URI is its characters
MsgHashes == {ZeroHash, BlobHash, CommitHash}
Commands == [Name : {"refs/heads/master"}, Old : MsgHashes, New : MsgHashes]
CommandLists == UNION {[1..n -> Commands] : n \in 0..MaxCommands}
Authors == {<<>>, <<1>>}
URIs == {<<>>, <<"r">>}

Built(m) ==
    [op |-> "NewMsgUpdateReferences", URI |-> m.URI, Author |-> m.Author,
     Commands |-> m.Commands, err |-> ValidateBasic(m),
     i |-> 0, action |-> "", verr |-> Nil]

InitMsgs ==
    /\ NoParser
    /\ disk = <<>>
    /\ index = NilIndex
    /\ sret = NoCall
    /\ keepDescriptors = FALSE
    /\ fds = NoDescriptors
    /\ writer = NoWriter
    /\ faulty = FALSE
    /\ procs = << >>
    /\ msg = NoMsg

\* the constructor: the message and what ValidateBasic says of it
NewMsgUpdateReferences ==
    /\ msg.op = ""
    /\ \E uri \in URIs, author \in Authors, cmds \in CommandLists :
        msg' = Built([URI |-> uri, Author |-> author, Commands |-> cmds])
    /\ UNCHANGED <<pvars, svars>>

\* Action() of a command of the message
CallAction ==
    /\ msg.op # ""
    /\ \E i \in DOMAIN msg.Commands :
        msg' = [msg EXCEPT !.op = "Action", !.i = i, !.verr = Nil,
                           !.action = Action(msg.Commands[i])]
    /\ UNCHANGED <<pvars, svars>>

\* validate() of a command of the message
CallValidate ==
    /\ msg.op # ""
    /\ \E i \in DOMAIN msg.Commands :
        msg' = [msg EXCEPT !.op = "validate", !.i = i,
                           !.action = Action(msg.Commands[i]),
                           !.verr = validate(msg.Commands[i])]
    /\ UNCHANGED <<pvars, svars>>

NextMsgs ==
    \/ NewMsgUpdateReferences
    \/ CallAction
    \/ CallValidate

SpecMsgs == InitMsgs /\ [][NextMsgs]_vars


\* ------------------------------------------------------------ the claims
\* the callbacks the k-th observer received, in order
ObLog(k) == SelectSeq(log, LAMBDA e : e.ob = k)

\* the index of the pack entry at an offset
IndexOfOffset(pos) == CHOOSE i \in 1..Len(pack) : OffsetOf(i) = pos

\* the object a hash of the model names
ObjectOfHash(h) == [t |-> h[1], d |-> h[3]]

\* the object the i-th entry of the pack stands for: the entry itself, or
\* its delta applied to the object its base stands for
RECURSIVE RefObject(_)
RefObject(i) ==
    IF ~IsDelta(pack[i].Type)
    THEN [t |-> pack[i].Type, d |-> pack[i].content]
    ELSE LET base == IF pack[i].Type = OFSDeltaObject
                     THEN RefObject(IndexOfOffset(pack[i].OffsetReference))
                     ELSE ObjectOfHash(pack[i].Reference)
         IN  [t |-> base.t, d |-> PatchDelta(base.d, pack[i].delta).out]

ParseSucceeded == pc = "done" /\ ret.err = Nil

\* C1: after a successful Parse() every observer has received OnHeader(count),
\* then for each object in index order OnInflatedObjectHeader directly
\* followed by OnInflatedObjectContent for the same object, then OnFooter,
\* and nothing else.
C1_ObserverSequence ==
    ParseSucceeded =>
        \A k \in 1..numOb :
            /\ Len(ObLog(k)) = 2 * count + 2
            /\ ObLog(k)[1].ev = "OnHeader"
            /\ ObLog(k)[1].n = count
            /\ \A i \in 1..count :
                /\ ObLog(k)[2 * i].ev = "OnInflatedObjectHeader"
                /\ ObLog(k)[2 * i].pos = OffsetOf(i)
                /\ ObLog(k)[2 * i + 1].ev = "OnInflatedObjectContent"
                /\ ObLog(k)[2 * i + 1].pos = OffsetOf(i)
            /\ ObLog(k)[2 * count + 2].ev = "OnFooter"

C1_Witness ==
    /\ ParseSucceeded
    /\ count = 2
    /\ numOb = 2
    /\ IsDelta(pack[2].Type)

ResolvePassEvents == {"OnInflatedObjectHeader", "OnInflatedObjectContent"}

\* C2: when Scanner.Checksum() reported an error, Parse() returns an error
\* and no observer receives OnFooter or a per-object event of the resolve
\* pass.
C2_ChecksumErrorAborts ==
    sumErr # Nil =>
        /\ pc = "done" => ret.err # Nil
        /\ \A i \in 1..Len(log) :
            log[i].ev \notin ResolvePassEvents \cup {"OnFooter"}

\* the node o is a REF delta not reconstructed yet whose base is a
\* placeholder that no storage can provide
BaseUnobtainable(o) ==
    /\ nodes[o].DiskType = REFDeltaObject
    /\ nodes[o].SHA1 = ZeroHash
    /\ nodes[nodes[o].Parent].ExternalRef
    /\ \/ ~hasStorage
       \/ \A x \in store : getSHA1(x.t, x.d) # nodes[nodes[o].Parent].SHA1

\* Parse() ended in the iteration of the resolve pass on p.oi[ri]
FailedInResolve == pc = "done" /\ ri \in 1..Len(oi) /\ ret.err # Nil

\* C3: when the resolve pass ends at a REF delta whose placeholder base can
\* not be obtained (no storage, or a storage without the base), and no
\* storage i/o failed, Parse() fails with ErrReferenceDeltaNotFound.
C3_UnresolvedPlaceholder ==
    (FailedInResolve /\ BaseUnobtainable(oi[ri]) /\ ret.err # ErrStorageIO)
        => ret.err = ErrReferenceDeltaNotFound

\* C4: the construction fails, with ErrNotSeekableSource and no parser,
\* exactly when the scanner is not seekable and no storage is given; a
\* parser constructed holds a deltas map exactly when the scanner is not
\* seekable.
C4_Construction ==
    pc # "new" =>
        /\ (pc = "nil") <=> (~seekable /\ ~hasStorage)
        /\ pc = "nil" => ret.err = ErrNotSeekableSource
        /\ pc # "nil" => (deltas.nil <=> seekable)

C4_Witness == pc = "nil" /\ ret.err = ErrNotSeekableSource

\* C5: a callback that returned an error is the last call Parse() made, and
\* Parse() has returned (ZeroHash, that error).
C5_ObserverErrorStops ==
    \A i \in 1..Len(log) :
        log[i].err # Nil =>
            /\ i = Len(log)
            /\ pc = "done"
            /\ ret = [h |-> ZeroHash, err |-> log[i].err]

C5_Witness ==
    /\ Len(log) > 0
    /\ log[Len(log)].err # Nil
    /\ log[Len(log)].ev = "OnInflatedObjectContent"
    /\ log[Len(log)].ob < numOb

\* C6: every OnInflatedObjectContent carries the content its entry stands
\* for (for a delta: its chain applied to the root base) and its non-zero
\* canonical hash.
C6_ContentHash ==
    \A i \in 1..Len(log) :
        log[i].ev = "OnInflatedObjectContent" =>
            /\ log[i].h # ZeroHash
            /\ log[i].content = RefObject(IndexOfOffset(log[i].pos)).d
            /\ log[i].h = getSHA1(RefObject(IndexOfOffset(log[i].pos)).t,
                                  log[i].content)

C6_Witness ==
    \E i \in 1..Len(log) :
        /\ log[i].ev = "OnInflatedObjectContent"
        /\ pack[IndexOfOffset(log[i].pos)].Type = REFDeltaObject
        /\ log[i].content = <<1, 2>>
        /\ hasStorage

\* C7: with a storage attached, the object of a per-object callback was
\* written to the storage before the callback.
C7_WriteBeforeCallback ==
    hasStorage =>
        \A i \in 1..Len(log) :
            log[i].ev \in ResolvePassEvents =>
                \E j \in 1..(i - 1) :
                    /\ log[j].ev = "SetEncodedObject"
                    /\ log[j].t = RefObject(IndexOfOffset(log[i].pos)).t
                    /\ log[j].content = RefObject(IndexOfOffset(log[i].pos)).d
                    /\ log[j].h = getSHA1(log[j].t, log[j].content)

C7_Witness ==
    /\ hasStorage
    /\ \E i \in 1..Len(log) :
        /\ log[i].ev = "OnInflatedObjectHeader"
        /\ IsDelta(pack[IndexOfOffset(log[i].pos)].Type)

\* C8: a successful Parse() returns the trailer of the pack, which is the
\* hash every observer received with OnFooter.
C8_ChecksumIsTrailer ==
    ParseSucceeded =>
        /\ ret.h = PackTrailer
        /\ \A i \in 1..Len(log) : log[i].ev = "OnFooter" => log[i].h = PackTrailer

\* s.index is unloaded, or lists every pack of the root directory
IndexComplete ==
    index.nil \/ index.m = loadIdxFile("root", Len(disk["root"].packs))

RECURSIVE RefCopies(_, _, _)

\* the first alternate of dotgits[i..] the reference lookup finds h in
RECURSIVE RefAlternates(_, _, _, _)

RefAlternates(dotgits, i, h, seen) ==
    IF i > Len(dotgits) THEN {}
    ELSE IF dotgits[i] \notin seen
            /\ RefCopies(dotgits[i], h, seen \cup {dotgits[i]}) # {}
    THEN RefCopies(dotgits[i], h, seen \cup {dotgits[i]})
    ELSE RefAlternates(dotgits, i + 1, h, seen)

\* the reference lookup: the loose copy, else the copy of a local pack that
\* lists h, else the copy of the first alternate (in listed order) with one
RefCopies(d, h, seen) ==
    IF h \in disk[d].loose THEN {StoredObject(h, d, "loose", 0)}
    ELSE IF \E i \in DOMAIN disk[d].packs : h \in disk[d].packs[i]
    THEN {StoredObject(h, d, "pack", i) :
            i \in {j \in DOMAIN disk[d].packs : h \in disk[d].packs[j]}}
    ELSE RefAlternates(disk[d].alts, 1, h, seen)

\* what the reference lookup may return for (t, h): nothing when the type of
\* the object differs from a t that is not AnyObject
RefLookup(t, h) ==
    IF t # AnyObject /\ h[1] # t THEN {} ELSE RefCopies("root", h, {"root"})

\* C9: an EncodedObject(t, h) that returns, with no file-system call failing
\* and an index that is unloaded or complete, returns what the reference
\* lookup returns: the loose copy of h, else the copy of a local pack whose
\* index lists h, else the copy of the first alternate in listed order that
\* has it, else ErrObjectNotFound; and whenever t is not AnyObject no object of
\* another type is returned, whichever source served it, failing calls or not.
C9_LookupOrder ==
    sret.op = "EncodedObject" =>
        /\ (sret.err = Nil /\ sret.t # AnyObject => sret.obj.t = sret.t)
        /\ (~sret.fault /\ IndexComplete /\ sret.err # StackOverflow) =>
            IF RefLookup(sret.t, sret.h) = {}
            THEN sret.err = ErrObjectNotFound /\ sret.obj = NoObject
            ELSE sret.err = Nil /\ sret.obj \in RefLookup(sret.t, sret.h)

\* a typed lookup that only the second alternate could serve, after the
\* first one answered not found
C9_Witness ==
    /\ sret.op = "EncodedObject"
    /\ ~sret.fault
    /\ IndexComplete
    /\ sret.t = BlobObject
    /\ sret.err = Nil
    /\ sret.obj.dir = "altB"
    /\ sret.alts = <<Asked("altA", ErrObjectNotFound), Asked("altB", Nil)>>

\* C10: in the lookup through the alternates, a not-found answer of one
\* alternate makes EncodedObject ask the next one, and any other error, of an
\* alternate's lookup or of listing the alternates, ends the lookup and is
\* what the caller gets.
C10_AlternateErrorAborts ==
    sret.op = "EncodedObject" =>
        \A i \in DOMAIN sret.alts :
            /\ (sret.alts[i].err \notin {Nil, ErrObjectNotFound}
                    => sret.err = sret.alts[i].err /\ i = Len(sret.alts))
            /\ (sret.alts[i].err = ErrObjectNotFound
                /\ i < Len(disk["root"].alts) /\ sret.err # StackOverflow
                    => i < Len(sret.alts))

\* C11: after an EncodedObjectSize(h) with no file-system call failing and
\* an index that is unloaded or complete, if EncodedObject(AnyObject, h)
\* succeeds (from a loose file, a local pack or an alternate) then
\* EncodedObjectSize(h) has succeeded and returned the length of the payload
\* of that object.
C11_SizeOfEncodedObject ==
    (sret.op = "EncodedObjectSize" /\ ~sret.fault /\ IndexComplete) =>
        \A ord \in {"asc", "desc"} :
            LET e == EncodedObject("root", index, AnyObject, sret.h, NoFault,
                                   ord, {})
            IN  e.err = Nil =>
                    /\ sret.err = Nil
                    /\ sret.size = Len(ObjectOfHash(e.obj.h).d)

\* C12: the objects an iteration with IterEncodedObjects(t) yields are all the
\* loose objects of type t first, then those of each pack in turn, and no
\* hash is yielded twice.
C12_IterationOrder ==
    (sret.op = "IterEncodedObjects" /\ sret.err = Nil) =>
        /\ \A h \in disk["root"].loose :
                (sret.t = AnyObject \/ h[1] = sret.t) =>
                    \E i \in DOMAIN sret.out :
                        sret.out[i] = StoredObject(h, "root", "loose", 0)
        /\ \A i, j \in DOMAIN sret.out :
                i < j =>
                    /\ sret.out[j].from = "loose" => sret.out[i].from = "loose"
                    /\ sret.out[i].pack <= sret.out[j].pack
                    /\ sret.out[i].h # sret.out[j].h

\* C13: SetEncodedObject of an object of a delta type returns (ZeroHash,
\* ErrInvalidType) and leaves the object directory as it is; of any other
\* type of the model, on a file system that does not fail, it adds the loose
\* object and returns its hash.
C13_SetEncodedObject ==
    [][sret'.op = "SetEncodedObject" =>
        IF IsDelta(sret'.t)
        THEN /\ sret'.h = ZeroHash
             /\ sret'.err = ErrInvalidType
             /\ disk' = disk
        ELSE ~sret'.fault =>
                /\ sret'.err = Nil
                /\ sret'.h = getSHA1(sret'.t, <<1>>)
                /\ disk' = [disk EXCEPT !["root"].loose = @ \cup {sret'.h}]]_vars

C13_Witness ==
    /\ sret.op = "SetEncodedObject"
    /\ sret.t = REFDeltaObject
    /\ sret.err = ErrInvalidType
    /\ disk["root"].loose = {}

\* C14: with goroutines sharing the storage, a caller that is past
\* requireIndex and about to run findObjectInPackfile finds in s.index the
\* index of every pack of the directory, never an empty or partly filled map.
C14_RequireIndexSerialized ==
    \A p \in DOMAIN procs :
        procs[p].pc = "findObjectInPackfile" =>
            /\ ~index.nil
            /\ index.m = loadIdxFile("root", Len(disk["root"].packs))

\* C15: when the writer of PackfileWriter() has been closed, the index of
\* the new pack is in s.index under the pack, whatever operations ran between
\* PackfileWriter() and the Close().
C15_WriterRegistersPack ==
    sret.op = "WriterClose" =>
        /\ sret.err = Nil
        /\ ~index.nil
        /\ writer.pack \in DOMAIN index.m
        /\ index.m[writer.pack] = disk["root"].packs[writer.pack]

RandomAccessReads == {"EncodedObject", "DeltaObject", "EncodedObjectSize"}

\* C16: a random-access read that opened a pack file has closed it on return
\* exactly when KeepDescriptors is not set; with KeepDescriptors set the
\* descriptor is left open.
C16_DescriptorClosedUnlessKept ==
    (sret.op \in RandomAccessReads /\ fds.last # 0) =>
        /\ (fds.last \in fds.closed) <=> ~keepDescriptors
        /\ keepDescriptors => fds.last \in fds.open

\* the operations that look a hash up in the packs once it is not loose
LookupOps == RandomAccessReads \cup {"HasEncodedObject"}

\* the OnInflatedObjectContent callbacks the k-th observer has received
ContentLog(k) == SelectSeq(ObLog(k), LAMBDA e : e.ev = "OnInflatedObjectContent")

\* C17: within one Parse() the pos of the successive OnInflatedObjectContent
\* callbacks an observer receives is strictly ascending.
C17_ContentPosAscending ==
    \A k \in 1..numOb :
        \A i, j \in 1..Len(ContentLog(k)) :
            i < j => ContentLog(k)[i].pos < ContentLog(k)[j].pos

\* without storage and without cache the content of an OFS delta is got by
\* reading its base again, at the earlier offset
C17_Witness ==
    /\ ParseSucceeded
    /\ seekable /\ ~hasStorage /\ cacheCap = 0
    /\ Len(pack) = 2
    /\ pack[2].Type = OFSDeltaObject
    /\ Len(ContentLog(1)) = 2

\* C18: Reindex() discards s.index; the next operation that needs the index
\* then holds, before it looks anything up, the index of every pack the
\* object directory lists; and no other operation reloads an index that is
\* loaded.
C18_Reindex ==
    [][/\ sret'.op = "Reindex" => index'.nil
       /\ (index.nil
            /\ \/ sret'.op \in {"IterEncodedObjects", "PackfileWriter"}
               \/ sret'.op \in LookupOps /\ sret'.h \notin disk["root"].loose)
                => /\ ~index'.nil
                   /\ index'.m = loadIdxFile("root", Len(disk["root"].packs))
       /\ (~index.nil /\ sret'.op \notin {"Reindex", "WriterClose"})
                => index' = index]_vars

\* Reindex() has discarded the index while the directory lists a pack that
\* git added
C18_Witness ==
    /\ sret.op = "Reindex"
    /\ index.nil
    /\ writer.state = "none"
    /\ Len(disk["root"].packs) = MaxPacks
    /\ disk["root"].packs[MaxPacks] = {CommitHash}

\* C19: a Parse() of a source that is not seekable never returns
\* ErrDeltaNotCached: every readData of a delta node finds its entry in
\* p.deltas.
C19_DeltaCached ==
    ~seekable => ret.err # ErrDeltaNotCached

\* a REF delta on an object of the storage and an OFS delta on that delta:
\* both were read from p.deltas, and the entry of the first has been dropped
C19_Witness ==
    /\ ParseSucceeded
    /\ ~seekable
    /\ Len(pack) = 2
    /\ pack[1].Type = REFDeltaObject
    /\ pack[2].Type = OFSDeltaObject
    /\ OffsetOf(1) \notin DOMAIN deltas.m
    /\ OffsetOf(2) \in DOMAIN deltas.m

\* what an iteration of resolveDeltas leaves behind, the cache apart
Outcome(r) == [err |-> r.err, nodes |-> r.h.nodes, store |-> r.h.store,
               deltas |-> r.h.deltas, log |-> r.h.log]

Indexed == pc \in {"resolve", "done"} /\ ix > count

\* the hash of the object the i-th entry stands for
RefHash(i) == getSHA1(RefObject(i).t, RefObject(i).d)

\* C21: once the index pass is over, no placeholder node carries the hash of
\* an object the pack contains, as a base entry or as the reconstruction of
\* a delta entry, at any position.
C21_PlaceholderOnlyExternal ==
    Indexed =>
        \A n \in DOMAIN nodes :
            nodes[n].ExternalRef =>
                \A i \in 1..Len(pack) : RefHash(i) # nodes[n].SHA1

\* C22: every hash of oiByHash maps to a node with that sha1 (a node of the
\* pack or a placeholder), and every node whose sha1 has been reconstructed
\* is found in oiByHash under its sha1.
C22_OiByHash ==
    /\ \A h \in DOMAIN oiByHash : nodes[oiByHash[h]].SHA1 = h
    /\ \A n \in DOMAIN nodes :
            nodes[n].SHA1 # ZeroHash =>
                /\ nodes[n].SHA1 \in DOMAIN oiByHash
                /\ nodes[oiByHash[nodes[n].SHA1]].SHA1 = nodes[n].SHA1

\* C23: after a successful Parse() of a source that is not seekable p.deltas
\* is empty: the entry of every delta node has been dropped.
C23_DeltasDropped ==
    (ParseSucceeded /\ ~seekable) => DOMAIN deltas.m = {}

\* the nodes that are not placeholders
PackNodes == {n \in DOMAIN nodes : ~nodes[n].ExternalRef}

\* C24: after a successful index pass there are exactly count nodes that
\* are not placeholders, every slot of oi holds one of them, and oiByOffset
\* has exactly count entries, each offset mapped to the one node with that
\* offset; no placeholder is in oi or in oiByOffset.
C24_IndexedNodes ==
    Indexed =>
        /\ Cardinality(PackNodes) = count
        /\ Len(oi) = count
        /\ {oi[i] : i \in 1..count} = PackNodes
        /\ Cardinality(DOMAIN oiByOffset) = count
        /\ \A i \in 1..count :
                /\ nodes[oi[i]].Offset = OffsetOf(i)
                /\ OffsetOf(i) \in DOMAIN oiByOffset
                /\ oiByOffset[OffsetOf(i)] = oi[i]
        /\ \A n, m \in PackNodes : nodes[n].Offset = nodes[m].Offset => n = m

\* the index pass of a thin pack: two REF deltas and a placeholder
C24_Witness ==
    /\ Indexed
    /\ count = MaxCount
    /\ \E n \in DOMAIN nodes : nodes[n].ExternalRef /\ Len(nodes[n].Children) > 0

\* Parse() returned from the index pass
FailedInIndex == pc = "done" /\ ix \in 1..count

\* the errors the index pass of the model can meet
IndexErrors == {ErrScanner, ErrObjectNotFound, ErrStorageIO}

\* C26: when the index pass fails, Parse() returns ZeroHash and the error,
\* ErrObjectNotFound for an OFS delta whose base offset is unknown, and each
\* observer has received OnHeader and nothing else.
C26_IndexFailure ==
    FailedInIndex =>
        /\ ret.h = ZeroHash
        /\ ret.err \in IndexErrors
        /\ (/\ Len(pack) = ix
            /\ pack[ix].Type = OFSDeltaObject
            /\ pack[ix].OffsetReference \notin DOMAIN oiByOffset)
                => ret.err = ErrObjectNotFound
        /\ \A k \in 1..numOb :
                /\ Len(ObLog(k)) = 1
                /\ ObLog(k)[1].ev = "OnHeader"

\* the second entry is an OFS delta on an offset that starts no entry
C26_Witness ==
    /\ FailedInIndex
    /\ ix = 2
    /\ Len(pack) = 2
    /\ pack[2].Type = OFSDeltaObject
    /\ ret.err = ErrObjectNotFound

\* C27: every OnInflatedObjectHeader carries the type of the object the
\* entry stands for, never a delta type or AnyObject, and the size it
\* carries is the length of the content of the OnInflatedObjectContent that
\* follows it.
C27_ResolvedHeader ==
    \A k \in 1..numOb :
        \A i \in 1..Len(ObLog(k)) :
            ObLog(k)[i].ev = "OnInflatedObjectHeader" =>
                /\ ObLog(k)[i].t \in Types
                /\ ObLog(k)[i].t = RefObject(IndexOfOffset(ObLog(k)[i].pos)).t
                /\ (i < Len(ObLog(k))
                    /\ ObLog(k)[i + 1].ev = "OnInflatedObjectContent")
                        => ObLog(k)[i].n = Len(ObLog(k)[i + 1].content)

\* the header of a REF delta on a placeholder read from the storage
C27_Witness ==
    /\ ParseSucceeded
    /\ Len(pack) >= 1
    /\ pack[1].Type = REFDeltaObject
    /\ nodes[oiByHash[pack[1].Reference]].ExternalRef
    /\ ObLog(1)[2].ev = "OnInflatedObjectHeader"
    /\ ObLog(1)[2].t = BlobObject

\* C25: every EncodedObject(t, h) returns to its caller, whatever the
\* alternates of the object directories name: the recursion into alternates
\* does not run until the stack of the goroutine is exhausted.
C25_LookupTerminates ==
    sret.op = "EncodedObject" => sret.err # StackOverflow

\* the packs of the root directory that hold h
LocalPacksWith(h) == {i \in DOMAIN disk["root"].packs : h \in disk["root"].packs[i]}

\* C28: a lookup by hash alone in which no call to the file system fails
\* does not answer ErrObjectNotFound for a hash that a pack of its own
\* object directory holds, also when an earlier requireIndex has failed.
C28_FailedLoadRetried ==
    (/\ sret.op \in {"EncodedObject", "EncodedObjectSize"}
     /\ sret.t = AnyObject
     /\ ~sret.fault
     /\ sret.err = ErrObjectNotFound)
        => LocalPacksWith(sret.h) = {}

\* the command Action() or validate() was last asked of
Cmd == msg.Commands[msg.i]

\* C29: Action() answers invalid exactly when Old and New are both zero,
\* create exactly when only Old is zero, delete exactly when only New is
\* zero, update exactly when neither is; validate() fails exactly on
\* invalid; and ValidateBasic rejects an empty author, then an empty URI,
\* then an empty list of commands, and accepts every other message,
\* whatever its commands are.
C29_ActionAndValidateBasic ==
    /\ msg.op \in {"Action", "validate"} =>
        /\ msg.action \in {InvalidAction, CreateAction, DeleteAction, UpdateAction}
        /\ msg.action = InvalidAction <=> (Cmd.Old = ZeroHash /\ Cmd.New = ZeroHash)
        /\ msg.action = CreateAction <=> (Cmd.Old = ZeroHash /\ Cmd.New # ZeroHash)
        /\ msg.action = DeleteAction <=> (Cmd.Old # ZeroHash /\ Cmd.New = ZeroHash)
        /\ msg.action = UpdateAction <=> (Cmd.Old # ZeroHash /\ Cmd.New # ZeroHash)
    /\ msg.op = "validate" => (msg.verr # Nil <=> msg.action = InvalidAction)
    /\ msg.op # "" =>
        /\ msg.Author = <<>> => msg.err = ErrInvalidAddress
        /\ (msg.Author # <<>> /\ msg.URI = <<>>)
                => msg.err = ErrUnknownRequest("URI cannot be empty")
        /\ (msg.Author # <<>> /\ msg.URI # <<>> /\ msg.Commands = <<>>)
                => msg.err = ErrUnknownRequest("Commands cannot be empty")
        /\ (msg.Author # <<>> /\ msg.URI # <<>> /\ msg.Commands # <<>>)
                => msg.err = Nil

\* a message ValidateBasic accepted holds a command validate() rejects
C29_Witness ==
    /\ msg.op = "validate"
    /\ msg.err = Nil
    /\ msg.verr = ErrMalformedCommand
    /\ Len(msg.Commands) = MaxCommands

====
